---------------------------- MODULE Spec2Model ----------------------------
(***************************************************************************)
(* State-machine model of koofr/go-clouddriveclient: the credential        *)
(* manager (CloudDriveAuth.ValidToken / UpdateRefreshToken), the error     *)
(* normalizer (HandleError) and the request executor (CloudDrive.Request). *)
(*                                                                         *)
(* Every Go statement that touches shared state is one step of the caller  *)
(* that executes it; goroutines ("callers") interleave between steps.      *)
(* Access tokens are numbered: the construction-time token is 0 and the    *)
(* k-th refresh request of the run is answered, when it succeeds, with     *)
(* token k.  Time is in whole Unix seconds.                                *)
(***************************************************************************)
EXTENDS Integers, Sequences, FiniteSets, TLC

(***************************** bounds **************************************)
NCallers == 2          \* goroutines using one client / one CloudDriveAuth
MaxNow == 1            \* the clock runs from 0 to MaxNow seconds
MaxRefresh == 2        \* refresh requests the authorization server answers
MaxRetriesCap == 3     \* largest value the caller assigns to d.MaxRetries
MaxPages == 2          \* pages of a children listing

(************************* program constants *******************************)
DefaultMaxRetries == 5
StatusNotFound == 404
StatusTooManyRequests == 429
Margin == 5 * 60

ErrorCodeNodeNotFound == "NODE_NOT_FOUND"
ErrorCodeTooManyRequests == "TOO_MANY_REQUESTS"
ErrorCodeNameAlreadyExists == "NAME_ALREADY_EXISTS"
InvalidGrantError == "invalid_grant"

Callers == 1..NCallers

(************************* wire-level values *******************************)
\* Response bodies, as the text the server sends.
BodyNodeMissing == "{\"message\":\"Node does not exists\"}"
BodyRate == "{\"logref\":\"LOGREF-UUID\",\"message\":\"Rate exceeded\",\"code\":\"\"}"
BodyNameExists == "{\"code\":\"NAME_ALREADY_EXISTS\",\"message\":\"Node with the name already exists\",\"logref\":\"LOGREF-UUID\"}"
BodyOAuth == "{\"error\":\"invalid_grant\",\"error_description\":\"The request has an invalid grant parameter\"}"
BodyEmptyObject == "{}"
BodyNull == "null"
BodyText == "Service Unavailable"

Bodies == {BodyNodeMissing, BodyRate, BodyNameExists, BodyOAuth,
           BodyEmptyObject, BodyNull, BodyText}

ContentTypes == {"application/vnd.error+json", "application/json", "text/plain"}

\* encoding/json applied to a text: syntactically invalid text is an error,
\* the literal null is valid and carries no members, an object carries its
\* members (absent members read as "").  Every text that is not one of the
\* JSON documents below (plain messages, the empty string) is invalid JSON.
JSONDecode(s) ==
  LET obj(c, m, l, e, d) ==
        [valid |-> TRUE, null |-> FALSE, code |-> c, message |-> m,
         logref |-> l, error |-> e, error_description |-> d]
  IN CASE s = BodyNodeMissing -> obj("", "Node does not exists", "", "", "")
       [] s = BodyRate -> obj("", "Rate exceeded", "LOGREF-UUID", "", "")
       [] s = BodyNameExists ->
            obj(ErrorCodeNameAlreadyExists, "Node with the name already exists",
                "LOGREF-UUID", "", "")
       [] s = BodyOAuth ->
            obj("", "", "", InvalidGrantError,
                "The request has an invalid grant parameter")
       [] s = BodyEmptyObject -> obj("", "", "", "", "")
       [] s = BodyNull ->
            [valid |-> TRUE, null |-> TRUE, code |-> "", message |-> "",
             logref |-> "", error |-> "", error_description |-> ""]
       [] OTHER ->
            [valid |-> FALSE, null |-> FALSE, code |-> "", message |-> "",
             logref |-> "", error |-> "", error_description |-> ""]

(****************************** errors *************************************)
\* One shape for every Go error value.  type is "nil" (no error), "error" (a
\* network, decode or cancellation error, named by Message),
\* "InvalidStatusError" (httpclient's unexpected-status failure: Got,
\* ContentType, Content), "CloudDriveError" (Code, Message, Logref and the raw
\* failure in Got/ContentType/Content; wrapped says HttpClientError is set) or
\* "panic" (the call did not return: a nil pointer was dereferenced).
MkErr(t, code, msg, logref, wrapped, got, ct, content) ==
  [type |-> t, Code |-> code, Message |-> msg, Logref |-> logref,
   wrapped |-> wrapped, Got |-> got, ContentType |-> ct, Content |-> content]

NilError == MkErr("nil", "", "", "", FALSE, 0, "", "")
Panic == MkErr("panic", "", "", "", FALSE, 0, "", "")
PlainError(msg) == MkErr("error", "", msg, "", FALSE, 0, "", "")
InvalidStatusError(got, ct, content) ==
  MkErr("InvalidStatusError", "", "", "", FALSE, got, ct, content)

ErrCustomerNotFound ==
  MkErr("CloudDriveError", "CUSTOMER_NOT_FOUND",
        "Endpoint customer does not exist", "", FALSE, 0, "", "")

IsCloudDriveError(e) == e.type = "CloudDriveError"

\* json.Unmarshal([]byte(content), &cloudDriveErr) with cloudDriveErr a
\* *CloudDriveError: an error leaves the struct untouched, the literal null
\* sets the pointer itself to nil, an object fills Code, Message, Logref.
UnmarshalCloudDriveError(content) ==
  LET j == JSONDecode(content)
  IN [jsonErr |-> ~j.valid, nilPtr |-> j.valid /\ j.null,
      Code |-> j.code, Message |-> j.message, Logref |-> j.logref]

\* HandleError: if ise.Got == http.StatusNotFound && cloudDriveErr.Code == ""
\* && cloudDriveErr.Message == "Node does not exists" { Code = NODE_NOT_FOUND }
NodeNotFoundCode_AnyStatus(got, code, msg) ==
  IF code = "" /\ msg = "Node does not exists" /\ got # StatusNotFound
    THEN ErrorCodeNodeNotFound ELSE code

NodeNotFoundCode(got, code, msg) ==
  IF got = StatusNotFound /\ code = "" /\ msg = "Node does not exists"
    THEN ErrorCodeNodeNotFound ELSE code

\* HandleError: only InvalidStatusError is normalized.  After a successful
\* Unmarshal of the literal null cloudDriveErr is nil, and the field accesses
\* that follow (the 404 test when Got is 404, the 429 assignment when Got is
\* 429, the HttpClientError assignment in every case) dereference it.
HandleError_WrapsAll(e) ==
  MkErr("CloudDriveError", "unknown", e.Message, "", TRUE, e.Got,
        e.ContentType, e.Content)

HandleError(e) ==
  IF e.type # "InvalidStatusError" THEN e
  ELSE
    LET u == UnmarshalCloudDriveError(e.Content)
        jsonCT == e.ContentType \in {"application/vnd.error+json", "application/json"}
        nilPtr == jsonCT /\ ~u.jsonErr /\ u.nilPtr
        parsed == jsonCT /\ ~u.jsonErr
        code1 == IF parsed THEN u.Code ELSE "unknown"
        msg1 == IF parsed THEN u.Message ELSE e.Content
        log1 == IF parsed THEN u.Logref ELSE ""
        code2 == NodeNotFoundCode(e.Got, code1, msg1)
        code3 == IF e.Got = StatusTooManyRequests THEN ErrorCodeTooManyRequests ELSE code2
        msg3 == IF e.Got = StatusTooManyRequests /\ msg1 = "" THEN "Rate exceeded" ELSE msg1
    IN IF nilPtr THEN Panic
       ELSE MkErr("CloudDriveError", code3, msg3, log1, TRUE,
                  e.Got, e.ContentType, e.Content)

\* UpdateRefreshToken's failure branch: normalize, then, when the normalized
\* Message parses as JSON, overwrite Code and Message with the OAuth members
\* error and error_description.  refreshErr is a *RefreshRespError, so the
\* literal null sets it to nil and the member access dereferences nil.
RefreshFailure(e) ==
  LET h == HandleError(e)
  IN IF ~IsCloudDriveError(h) THEN h
     ELSE LET j == JSONDecode(h.Message)
          IN IF ~j.valid THEN h
             ELSE IF j.null THEN Panic
             ELSE [h EXCEPT !.Code = j.error, !.Message = j.error_description]

(****************************** state **************************************)
VARIABLES
  now,             \* time.Now().Unix()
  AccessToken,     \* CloudDriveAuth.AccessToken
  ExpiresAt,       \* CloudDriveAuth.ExpiresAt, in Unix seconds
  creds,           \* ClientId, ClientSecret, RedirectUri, RefreshToken
  OnTokenRefresh,  \* the optional hook: "nil", "set" (a hook that leaves the
                   \* client alone) or "reenter" (one that calls
                   \* UpdateRefreshToken on the same credentials)
  mutex,           \* CloudDriveAuth.mutex: 0 when free, else the holder
  MaxRetries,      \* CloudDrive.MaxRetries
  pc,              \* per caller: the statement it is at
  op,              \* per caller: the exported method it called
  canRetry,        \* per caller: Request's canRetry
  retries,         \* per caller: Request's retries
  retry,           \* per caller: Request's retry
  wakeAt,          \* per caller: when the time.Sleep of the backoff ends
  token,           \* per caller: ValidToken's result token
  respVal,         \* per caller: UpdateRefreshToken's respVal
  err,             \* per caller: the error of the call in progress / returned
  outcome,         \* per caller: "none", "ok", "err" or "panic"
  refreshSent,     \* history: refresh requests sent so far
  obs,             \* history, per caller: what the current auth call saw and did
  stats,           \* history, per caller: what the current Request did
  ContentClient,   \* CloudDrive.ContentClient: NilClient or its BaseURL
  MetadataClient,  \* CloudDrive.MetadataClient: NilClient or its BaseURL
  ctx,             \* the context.Context of the resource operation in progress
  api,             \* the resource operation in progress and its locals
  handled,         \* a direct call of HandleError: its argument and result
  store,           \* the remote service: the nodes it holds, in creation order
  held,            \* the checkpoint the caller kept from its last Changes call
  granted          \* history: expires_in of the last successful refresh, and
                   \* the clock reading of the statement that set the expiry

authVars == <<AccessToken, ExpiresAt, creds, OnTokenRefresh, mutex>>
reqVars == <<canRetry, retries, retry, wakeAt>>
svcVars == <<store, held>>
extVars == <<ContentClient, MetadataClient, ctx, api, handled, svcVars, granted>>
vars == <<now, authVars, MaxRetries, pc, op, reqVars, token, respVal, err,
          outcome, refreshSent, obs, stats, extVars>>

InitCreds ==
  [ClientId |-> "client-id", ClientSecret |-> "client-secret",
   RedirectUri |-> "redirect-uri", RefreshToken |-> "refresh-token"]

\* Expiry timestamps the caller may construct the credentials with: long
\* expired, exactly on the margin at time 0, far away.
InitExpiries == {0, Margin, 2 * Margin}

\* expires_in values the authorization server answers with.
ExpiresIns == {Margin - 1, Margin, 2 * Margin}

\* obs: need, exp and base are what ValidToken's test saw (whether the clock
\* was past the expiry minus five minutes, the expiry it read, and how many
\* refresh requests had been sent by then); sent and hooks count the refresh
\* requests and hook invocations of the call; at is the clock reading of the
\* statement that set the expiry; mixed says that the token ValidToken read
\* was not the one stored together with the expiry it had read (the expiry
\* had changed in between, or an update had set the token and not yet the
\* expiry).  exp and at are kept only while the call needs them.
NoObs == [need |-> FALSE, exp |-> -1, base |-> 0, sent |-> 0, hooks |-> 0,
          at |-> 0, mixed |-> FALSE]
\* stats: cfg is d.MaxRetries as the call found it; attempts counts the
\* iterations of the retry loop, dispatched the requests put on the wire,
\* answered the answers received and n429 those that were a 429; last is the
\* kind of the latest answer ("ok", "429", or "fail" for any other failure),
\* authErr says ValidToken failed, tokAt is the iteration in which ValidToken
\* last returned a token, hdr is the Authorization header last sent.
NoStats == [cfg |-> 0, attempts |-> 0, dispatched |-> 0, answered |-> 0,
            n429 |-> 0, last |-> "none", authErr |-> FALSE, tokAt |-> 0,
            hdr |-> <<>>]
NoResp == [AccessToken |-> -1, ExpiresIn |-> 0]
\* ctx: done says the context is cancelled or timed out; sent is how many
\* requests the call had dispatched when that happened.
NoCtx == [done |-> FALSE, sent |-> 0]
\* api: name is the resource operation in progress ("none" when the caller
\* uses Request or the credential manager directly) and args its arguments;
\* nextToken and nodes are NodeChildren's locals; asked lists the startToken
\* of every page request and got the pages received; endpoint is what the
\* discovery request answered; result ("none", "ok", "err"), err and out are
\* what the operation returned; req is what the operation put into its
\* request (a body, a Range header); node is DownloadNodeByTempLink's local
\* node and looked, as history, what its lookup request had dispatched and
\* been answered when it returned.
NilOut == [nil |-> TRUE, nodes |-> <<>>, ContentUrl |-> "", MetadataUrl |-> "",
           Checkpoint |-> "", Reset |-> FALSE, Id |-> 0, body |-> <<>>,
           size |-> 0]
NoEndpoint == [CustomerExists |-> FALSE, ContentUrl |-> "", MetadataUrl |-> ""]
NilNode == [nil |-> TRUE, Id |-> 0, TempLink |-> ""]
NoLookup == [dispatched |-> 0, last |-> "none"]
NoApi == [name |-> "none", args |-> <<>>, nextToken |-> "", nodes |-> <<>>,
          asked |-> <<>>, got |-> <<>>, endpoint |-> NoEndpoint,
          req |-> <<>>, result |-> "none", err |-> NilError, out |-> NilOut,
          node |-> NilNode, looked |-> NoLookup]
\* A client pointer that is nil.
NilClient == [ok |-> FALSE, Scheme |-> "", Host |-> "", Path |-> ""]
NoCall == [st |-> "none", arg |-> NilError, res |-> NilError]
\* held: the Checkpoint of the Changes value the caller kept ("" when it has
\* none) and, as history, how many nodes the service held when it issued it.
NoCheckpoint == [Checkpoint |-> "", at |-> 0]
\* granted before any refresh has succeeded.
NoGrant == [ExpiresIn |-> -1, at |-> 0]

\* The state after NewCloudDrive(auth, httpClient): the credentials as the
\* caller supplied them, MaxRetries at its default, every goroutine idle.
Init ==
  /\ now = 0
  /\ AccessToken = 0
  /\ ExpiresAt \in InitExpiries
  /\ creds = InitCreds
  /\ OnTokenRefresh \in {"nil", "set", "reenter"}
  /\ mutex = 0
  /\ MaxRetries = DefaultMaxRetries
  /\ pc = [c \in Callers |-> "idle"]
  /\ op = [c \in Callers |-> "none"]
  /\ canRetry = [c \in Callers |-> FALSE]
  /\ retries = [c \in Callers |-> 0]
  /\ retry = [c \in Callers |-> 0]
  /\ wakeAt = [c \in Callers |-> 0]
  /\ token = [c \in Callers |-> -1]
  /\ respVal = [c \in Callers |-> NoResp]
  /\ err = [c \in Callers |-> NilError]
  /\ outcome = [c \in Callers |-> "none"]
  /\ refreshSent = 0
  /\ obs = [c \in Callers |-> NoObs]
  /\ stats = [c \in Callers |-> NoStats]
  /\ ContentClient = NilClient
  /\ MetadataClient = NilClient
  /\ ctx = NoCtx
  /\ api = NoApi
  /\ handled = NoCall
  /\ store = <<>>
  /\ held = NoCheckpoint
  /\ granted = NoGrant

(************************ credential manager *******************************)
\* ValidToken's test: time.Now().Unix() > (a.ExpiresAt.Unix() - 5*60).
NeedsRefresh_NoMargin(t, exp) == t > exp

NeedsRefresh_NotStrict(t, exp) == t >= exp - Margin

NeedsRefresh(t, exp) == t > exp - Margin

\* sync.Mutex: Lock returns only when no goroutine holds the mutex.
CanLock_Always(m) == TRUE

CanLock(m) == m = 0

\* time.Now().Add(time.Duration(respVal.ExpiresIn) * time.Second)
NewExpiry_DropsNow(t, expiresIn) == expiresIn

NewExpiry(t, expiresIn) == t + expiresIn

\* What the authorization server may answer to a refresh request with a
\* failure: an unexpected status with a body, or no HTTP answer at all.
RefreshErrors ==
  {InvalidStatusError(400, ct, b) :
     ct \in {"application/json", "text/plain"}, b \in {BodyOAuth, BodyNull}}
  \cup {PlainError("network")}

\* A goroutine calls a.ValidToken() directly.
CallValidToken(c) ==
  /\ pc[c] = "idle"
  /\ pc' = [pc EXCEPT ![c] = "VT_check"]
  /\ op' = [op EXCEPT ![c] = "ValidToken"]
  /\ UNCHANGED <<extVars, now, authVars, MaxRetries, reqVars, token, respVal, err,
                 outcome, refreshSent, obs, stats>>

\* A goroutine calls the exported a.UpdateRefreshToken() directly.
CallUpdateRefreshToken(c) ==
  /\ pc[c] = "idle"
  /\ pc' = [pc EXCEPT ![c] = "URT_lock"]
  /\ op' = [op EXCEPT ![c] = "UpdateRefreshToken"]
  /\ UNCHANGED <<extVars, now, authVars, MaxRetries, reqVars, token, respVal, err,
                 outcome, refreshSent, obs, stats>>

\* ValidToken, the if: reads the clock and a.ExpiresAt, without the mutex.
ValidToken_Check(c) ==
  /\ pc[c] = "VT_check"
  /\ obs' = [obs EXCEPT ![c].need = (now > ExpiresAt - 5 * 60),
                        ![c].exp = ExpiresAt, ![c].base = refreshSent]
  /\ pc' = [pc EXCEPT ![c] = IF NeedsRefresh(now, ExpiresAt)
                             THEN "URT_lock" ELSE "VT_read"]
  /\ UNCHANGED <<extVars, now, authVars, MaxRetries, op, reqVars, token, respVal, err,
                 outcome, refreshSent, stats>>

\* UpdateRefreshToken: a.mutex.Lock() blocks while another goroutine holds
\* the mutex; its holder builds the form and a.HTTPClient.Request(...) puts
\* the POST on the wire.
UpdateRefreshToken_Lock(c) ==
  /\ pc[c] = "URT_lock"
  /\ CanLock(mutex)
  /\ refreshSent < MaxRefresh
  /\ mutex' = c
  /\ refreshSent' = refreshSent + 1
  /\ obs' = [obs EXCEPT ![c].sent = @ + 1]
  /\ pc' = [pc EXCEPT ![c] = "URT_wait"]
  /\ UNCHANGED <<extVars, now, AccessToken, ExpiresAt, creds, OnTokenRefresh, MaxRetries,
                 op, reqVars, token, respVal, err, outcome, stats>>

\* UpdateRefreshToken: the request returns.  A 200 with {access_token,
\* expires_in} fills respVal; anything else takes the failure branch.
UpdateRefreshToken_Recv(c) ==
  /\ pc[c] = "URT_wait"
  /\ \/ \E e \in ExpiresIns :
          /\ respVal' = [respVal EXCEPT ![c] =
                           [AccessToken |-> refreshSent, ExpiresIn |-> e]]
          /\ obs' = obs
          /\ pc' = [pc EXCEPT ![c] = "URT_token"]
          /\ err' = err
     \/ \E r \in RefreshErrors :
          /\ err' = [err EXCEPT ![c] = RefreshFailure(r)]
          /\ obs' = obs
          /\ pc' = [pc EXCEPT ![c] = "URT_unlock"]
          /\ respVal' = respVal
  /\ UNCHANGED <<extVars, now, authVars, MaxRetries, op, reqVars, token, outcome,
                 refreshSent, stats>>

\* UpdateRefreshToken: a.AccessToken = respVal.AccessToken
UpdateRefreshToken_SetToken(c) ==
  /\ pc[c] = "URT_token"
  /\ AccessToken' = respVal[c].AccessToken
  /\ pc' = [pc EXCEPT ![c] = "URT_expiry"]
  /\ UNCHANGED <<extVars, now, ExpiresAt, creds, OnTokenRefresh, mutex, MaxRetries, op,
                 reqVars, token, respVal, err, outcome, refreshSent, obs, stats>>

\* UpdateRefreshToken: a.ExpiresAt = time.Now().Add(ExpiresIn seconds)
UpdateRefreshToken_SetExpiry(c) ==
  /\ pc[c] = "URT_expiry"
  /\ ExpiresAt' = NewExpiry(now, respVal[c].ExpiresIn)
  /\ obs' = [obs EXCEPT ![c].at = now]
  /\ granted' = [ExpiresIn |-> respVal[c].ExpiresIn, at |-> now]
  /\ pc' = [pc EXCEPT ![c] = "URT_hook"]
  /\ UNCHANGED <<ContentClient, MetadataClient, ctx, api, handled, svcVars,
                 now, AccessToken, creds, OnTokenRefresh, mutex, MaxRetries, op,
                 reqVars, token, respVal, err, outcome, refreshSent, stats>>

\* UpdateRefreshToken: if a.OnTokenRefresh != nil { a.OnTokenRefresh() }.  The
\* hook runs before the deferred Unlock.  A hook that calls
\* a.UpdateRefreshToken() on the same credentials arrives at a.mutex.Lock().
UpdateRefreshToken_Hook(c) ==
  /\ pc[c] = "URT_hook"
  /\ IF OnTokenRefresh # "nil"
       THEN obs' = [obs EXCEPT ![c].hooks = @ + 1]
       ELSE obs' = obs
  /\ pc' = [pc EXCEPT ![c] = IF OnTokenRefresh = "reenter"
                               THEN "URT_lock" ELSE "URT_unlock"]
  /\ UNCHANGED <<extVars, now, authVars, MaxRetries, op, reqVars, token, respVal, err,
                 outcome, refreshSent, stats>>

\* UpdateRefreshToken returns (or panics): the deferred a.mutex.Unlock() runs,
\* respVal goes out of scope and control is back in the caller.  Called directly, the call is over.
\* Inside ValidToken, an error makes ValidToken return ("", err), which in
\* turn makes Request return (nil, err); otherwise ValidToken goes on to
\* read the token.
UpdateRefreshToken_Unlock(c) ==
  /\ pc[c] = "URT_unlock"
  /\ mutex' = 0
  /\ IF err[c].type = "panic"
       THEN /\ pc' = [pc EXCEPT ![c] = "panicked"]
            /\ outcome' = [outcome EXCEPT ![c] = "panic"]
       ELSE IF err[c].type # "nil"
       THEN /\ pc' = [pc EXCEPT ![c] = "done"]
            /\ outcome' = [outcome EXCEPT ![c] = "err"]
       ELSE IF op[c] = "UpdateRefreshToken"
       THEN /\ pc' = [pc EXCEPT ![c] = "done"]
            /\ outcome' = [outcome EXCEPT ![c] = "ok"]
       ELSE /\ pc' = [pc EXCEPT ![c] = "VT_read"]
            /\ outcome' = outcome
  /\ respVal' = [respVal EXCEPT ![c] = NoResp]
  /\ obs' = [obs EXCEPT ![c].at = 0,
                        ![c].exp = IF err[c].type = "nil" THEN @ ELSE -1]
  /\ stats' = [stats EXCEPT ![c].authErr = (op[c] = "Request" /\ err[c].type # "nil")]
  /\ UNCHANGED <<extVars, now, AccessToken, ExpiresAt, creds, OnTokenRefresh, MaxRetries,
                 op, reqVars, token, err, refreshSent>>

\* ValidToken: token = a.AccessToken; return token, nil.  The read takes no
\* lock.  Inside Request the token goes into the Authorization header next.
ValidToken_Return(c) ==
  /\ pc[c] = "VT_read"
  /\ token' = [token EXCEPT ![c] = AccessToken]
  /\ IF op[c] = "Request"
       THEN /\ pc' = [pc EXCEPT ![c] = "Req_send"]
            /\ outcome' = outcome
       ELSE /\ pc' = [pc EXCEPT ![c] = "done"]
            /\ outcome' = [outcome EXCEPT ![c] = "ok"]
  /\ obs' = [obs EXCEPT ![c].exp = -1,
                        ![c].mixed = \/ obs[c].exp # ExpiresAt
                                     \/ \E d \in Callers : pc[d] = "URT_expiry"]
  /\ stats' = IF op[c] = "Request"
                THEN [stats EXCEPT ![c].tokAt = stats[c].attempts]
                ELSE stats
  /\ UNCHANGED <<extVars, now, authVars, MaxRetries, op, reqVars, respVal, err,
                 refreshSent>>

(************************** request executor *******************************)
\* What the transport may answer with a failure: an unexpected status with
\* any content type and body (httpclient.InvalidStatusError), or an error
\* that is no status error (network failure, cancelled context, undecodable
\* response).
Statuses == {StatusNotFound, StatusTooManyRequests, 500}
TransportErrors == {"network", "context canceled", "decode"}
ResponseErrors ==
  {InvalidStatusError(g, ct, b) : g \in Statuses, ct \in ContentTypes, b \in Bodies}
  \cup {PlainError(m) : m \in TransportErrors}

\* The error of a request whose context is cancelled or timed out.
ContextCanceled == PlainError("context canceled")

\* currentRequest.Headers.Set("Authorization", "Bearer "+token): the scheme
\* and the token of the header.
AuthorizationHeader_NoScheme(tok) == <<"", tok>>

AuthorizationHeader(tok) == <<"Bearer ", tok>>

\* 2^n, the ceiling of the backoff after the attempt with index n.
RECURSIVE Pow2(_)
Pow2(n) == IF n <= 0 THEN 1 ELSE 2 * Pow2(n - 1)

\* seconds := rand.Intn(int(math.Pow(2, float64(retry)))): any whole number
\* from 0 up to, and not including, 2^retry.
BackoffChoices_Inclusive(n) == 0..Pow2(n)

BackoffChoices(n) == 0..(Pow2(n) - 1)

\* retries := d.MaxRetries; if !canRetry { retries = 1 }
RetryBudget_IgnoresCopyability(copyable, maxRetries) == maxRetries

RetryBudget(copyable, maxRetries) == IF copyable THEN maxRetries ELSE 1

\* httpErr.Got == http.StatusTooManyRequests && retry+1 < retries
RetryAfter_GivesUpEarly(got, n, budget) ==
  got = StatusTooManyRequests /\ n + 2 < budget

RetryAfter(got, n, budget) == got = StatusTooManyRequests /\ n + 1 < budget

\* The caller assigns d.MaxRetries (an exported field) between calls.
SetMaxRetries(c, n) ==
  /\ pc[c] = "idle"
  /\ MaxRetries' = n
  /\ UNCHANGED <<extVars, now, authVars, pc, op, reqVars, token, respVal, err, outcome,
                 refreshSent, obs, stats>>

\* d.Request(client, request): retries := d.MaxRetries; canRetry :=
\* request.CanCopy(); if !canRetry { retries = 1 }; retry := 0.
StartRequest(c, copyable) ==
  /\ op' = [op EXCEPT ![c] = "Request"]
  /\ canRetry' = [canRetry EXCEPT ![c] = copyable]
  /\ retries' = [retries EXCEPT ![c] = RetryBudget(copyable, MaxRetries)]
  /\ retry' = [retry EXCEPT ![c] = 0]
  /\ stats' = [stats EXCEPT ![c] = [NoStats EXCEPT !.cfg = MaxRetries]]
  /\ outcome' = [outcome EXCEPT ![c] = "none"]
  /\ pc' = [pc EXCEPT ![c] = "Req_loop"]
  /\ UNCHANGED <<now, authVars, MaxRetries, wakeAt, token, respVal, err,
                 refreshSent, obs>>

\* The caller calls d.Request itself, with a request that has no context.
CallRequest(c, copyable) ==
  /\ pc[c] = "idle"
  /\ StartRequest(c, copyable)
  /\ UNCHANGED extVars

\* The loop test retry < retries: true, the body starts with the copy of the
\* request and the call of d.Auth.ValidToken; false, the loop is left and
\* panic("unreachable") runs.
Request_Loop(c) ==
  /\ pc[c] = "Req_loop"
  /\ IF retry[c] < retries[c]
       THEN /\ pc' = [pc EXCEPT ![c] = "VT_check"]
            /\ stats' = [stats EXCEPT ![c].attempts = @ + 1]
            /\ obs' = [obs EXCEPT ![c] = NoObs]
            /\ UNCHANGED <<err, outcome>>
       ELSE /\ pc' = [pc EXCEPT ![c] = "panicked"]
            /\ err' = [err EXCEPT ![c] = Panic]
            /\ outcome' = [outcome EXCEPT ![c] = "panic"]
            /\ UNCHANGED <<stats, obs>>
  /\ UNCHANGED <<extVars, now, authVars, MaxRetries, op, reqVars, token, respVal,
                 refreshSent>>

\* Headers.Set("Authorization", "Bearer "+token); client.Request(currentRequest)
\* puts the request on the wire, unless the request's context is done
\* already: then the HTTP client returns the context's error without sending.
Request_Send(c) ==
  /\ pc[c] = "Req_send"
  /\ stats' = [stats EXCEPT ![c].dispatched = IF ctx.done THEN @ ELSE @ + 1,
                            ![c].hdr = AuthorizationHeader(token[c])]
  /\ pc' = [pc EXCEPT ![c] = "Req_wait"]
  /\ UNCHANGED <<extVars, now, authVars, MaxRetries, op, reqVars, token, respVal, err,
                 outcome, refreshSent, obs>>

\* client.Request returns with a response: return response, nil.
Request_RecvOK(c) ==
  /\ pc[c] = "Req_wait"
  /\ ~ctx.done
  /\ stats' = [stats EXCEPT ![c].answered = @ + 1, ![c].last = "ok"]
  /\ pc' = [pc EXCEPT ![c] = "done"]
  /\ outcome' = [outcome EXCEPT ![c] = "ok"]
  /\ UNCHANGED <<extVars, now, authVars, MaxRetries, op, reqVars, token, respVal, err,
                 refreshSent, obs>>

\* client.Request returns with an error.  An InvalidStatusError with Got ==
\* 429 and retry+1 < retries: draw seconds := rand.Intn(2^retry) and start
\* time.Sleep.  Any other error, or no attempt left: return nil,
\* d.HandleError(err).
Request_RecvErr(c) ==
  /\ pc[c] = "Req_wait"
  /\ \E r \in IF ctx.done THEN {ContextCanceled} ELSE ResponseErrors :
       LET is429 == r.type = "InvalidStatusError" /\ r.Got = StatusTooManyRequests
           kind == IF is429 THEN "429" ELSE "fail"
           h == HandleError(r)
       IN /\ stats' = [stats EXCEPT ![c].answered = @ + 1,
                                    ![c].n429 = IF is429 THEN @ + 1 ELSE @,
                                    ![c].last = kind]
          /\ IF r.type = "InvalidStatusError" /\ RetryAfter(r.Got, retry[c], retries[c])
               THEN /\ \E seconds \in BackoffChoices(retry[c]) :
                         wakeAt' = [wakeAt EXCEPT ![c] = now + seconds]
                    /\ pc' = [pc EXCEPT ![c] = "Req_sleep"]
                    /\ UNCHANGED <<err, outcome>>
               ELSE /\ err' = [err EXCEPT ![c] = h]
                    /\ pc' = [pc EXCEPT ![c] = IF h.type = "panic"
                                               THEN "panicked" ELSE "done"]
                    /\ outcome' = [outcome EXCEPT ![c] = IF h.type = "panic"
                                                         THEN "panic" ELSE "err"]
                    /\ wakeAt' = wakeAt
  /\ UNCHANGED <<extVars, now, authVars, MaxRetries, op, canRetry, retries, retry, token,
                 respVal, refreshSent, obs>>

\* time.Sleep returns once the seconds have passed; continue; retry++.
Request_Wake(c) ==
  /\ pc[c] = "Req_sleep"
  /\ now >= wakeAt[c]
  /\ retry' = [retry EXCEPT ![c] = @ + 1]
  /\ wakeAt' = [wakeAt EXCEPT ![c] = 0]
  /\ pc' = [pc EXCEPT ![c] = "Req_loop"]
  /\ UNCHANGED <<extVars, now, authVars, MaxRetries, op, canRetry, retries, token,
                 respVal, err, outcome, refreshSent, obs, stats>>

\* The caller takes the result of a finished call and is free to call again.
\* Of a Changes value it keeps the Checkpoint, for its next Changes call.
Return(c) ==
  /\ pc[c] = "done"
  /\ api.name = "none" \/ api.result # "none"
  /\ pc' = [pc EXCEPT ![c] = "idle"]
  /\ op' = [op EXCEPT ![c] = "none"]
  /\ canRetry' = [canRetry EXCEPT ![c] = FALSE]
  /\ retries' = [retries EXCEPT ![c] = 0]
  /\ retry' = [retry EXCEPT ![c] = 0]
  /\ wakeAt' = [wakeAt EXCEPT ![c] = 0]
  /\ token' = [token EXCEPT ![c] = -1]
  /\ respVal' = [respVal EXCEPT ![c] = NoResp]
  /\ err' = [err EXCEPT ![c] = NilError]
  /\ outcome' = [outcome EXCEPT ![c] = "none"]
  /\ obs' = [obs EXCEPT ![c] = NoObs]
  /\ stats' = [stats EXCEPT ![c] = NoStats]
  /\ ctx' = NoCtx
  /\ IF api.name = "Changes" /\ api.result = "ok"
       THEN held' = [Checkpoint |-> api.out.Checkpoint, at |-> Len(store)]
       ELSE held' = held
  /\ api' = NoApi
  /\ UNCHANGED <<now, authVars, MaxRetries, refreshSent, ContentClient,
                 MetadataClient, handled, store, granted>>

\* One second passes.
Tick ==
  /\ now < MaxNow
  /\ now' = now + 1
  /\ UNCHANGED <<extVars, authVars, MaxRetries, pc, op, reqVars, token, respVal, err,
                 outcome, refreshSent, obs, stats>>

AuthStep(c) ==
  \/ ValidToken_Check(c)
  \/ UpdateRefreshToken_Lock(c)
  \/ UpdateRefreshToken_Recv(c)
  \/ UpdateRefreshToken_SetToken(c)
  \/ UpdateRefreshToken_SetExpiry(c)
  \/ UpdateRefreshToken_Hook(c)
  \/ UpdateRefreshToken_Unlock(c)
  \/ ValidToken_Return(c)
  \/ Return(c)

RequestStep(c) ==
  \/ Request_Loop(c)
  \/ Request_Send(c)
  \/ Request_RecvOK(c)
  \/ Request_RecvErr(c)
  \/ Request_Wake(c)

\* One goroutine using the client: it assigns MaxRetries, calls Request with
\* a copyable or a non-copyable request, or calls the credential manager's
\* exported methods.
Main == 1

Next ==
  \/ \E n \in (-1)..MaxRetriesCap : SetMaxRetries(Main, n)
  \/ \E copyable \in BOOLEAN : CallRequest(Main, copyable)
  \/ CallValidToken(Main)
  \/ CallUpdateRefreshToken(Main)
  \/ RequestStep(Main)
  \/ AuthStep(Main)
  \/ Tick

Spec == Init /\ [][Next]_vars

\* The credential manager under NCallers goroutines that call ValidToken
\* concurrently, on credentials constructed exactly one margin before expiry.
InitAuth == Init /\ ExpiresAt = Margin /\ OnTokenRefresh \in {"nil", "set"}

NextAuth ==
  \/ \E c \in Callers : CallValidToken(c)
  \/ \E c \in Callers : AuthStep(c)
  \/ Tick

SpecAuth == InitAuth /\ [][NextAuth]_vars

(************************ resource operations ******************************)
\* The URLs InitEndpoint is called with: two regions, and a text url.Parse
\* rejects (an invalid percent-escape).
ContentURLA == "https://content-na.drive.amazonaws.com/cdproxy/"
MetadataURLA == "https://cdws.us-east-1.amazonaws.com/drive/v1/"
ContentURLB == "https://content-eu.drive.amazonaws.com/cdproxy/"
MetadataURLB == "https://cdws.eu-west-1.amazonaws.com/drive/v1/"
BadURL == "%zz"

\* url.Parse: scheme, host and path of a well-formed URL, an error otherwise.
URLParse(u) ==
  CASE u = ContentURLA ->
         [ok |-> TRUE, Scheme |-> "https",
          Host |-> "content-na.drive.amazonaws.com", Path |-> "/cdproxy/"]
    [] u = ContentURLB ->
         [ok |-> TRUE, Scheme |-> "https",
          Host |-> "content-eu.drive.amazonaws.com", Path |-> "/cdproxy/"]
    [] u = MetadataURLA ->
         [ok |-> TRUE, Scheme |-> "https",
          Host |-> "cdws.us-east-1.amazonaws.com", Path |-> "/drive/v1/"]
    [] u = MetadataURLB ->
         [ok |-> TRUE, Scheme |-> "https",
          Host |-> "cdws.eu-west-1.amazonaws.com", Path |-> "/drive/v1/"]
    [] OTHER -> NilClient

EndpointArgs ==
  {<<ContentURLA, MetadataURLA>>, <<ContentURLB, MetadataURLB>>,
   <<BadURL, MetadataURLA>>, <<ContentURLA, BadURL>>}

\* InitEndpoint: both URLs are parsed before either client is assigned; an
\* error of either url.Parse returns before any assignment.
EndpointAfterInit_ClearsOnError(cur, contentURL, metadataURL) ==
  IF URLParse(contentURL).ok /\ URLParse(metadataURL).ok
    THEN <<URLParse(contentURL), URLParse(metadataURL)>>
    ELSE <<NilClient, NilClient>>

EndpointAfterInit_ContentFirst(cur, contentURL, metadataURL) ==
  IF ~URLParse(contentURL).ok THEN cur
  ELSE IF ~URLParse(metadataURL).ok THEN <<URLParse(contentURL), cur[2]>>
  ELSE <<URLParse(contentURL), URLParse(metadataURL)>>

EndpointAfterInit(cur, contentURL, metadataURL) ==
  IF URLParse(contentURL).ok /\ URLParse(metadataURL).ok
    THEN <<URLParse(contentURL), URLParse(metadataURL)>>
    ELSE cur

\* d.InitEndpoint(contentURL, metadataURL)
CallInitEndpoint(c, contentURL, metadataURL) ==
  /\ pc[c] = "idle"
  /\ LET ok == URLParse(contentURL).ok /\ URLParse(metadataURL).ok
         r == EndpointAfterInit(<<ContentClient, MetadataClient>>,
                                contentURL, metadataURL)
     IN /\ ContentClient' = r[1]
        /\ MetadataClient' = r[2]
        /\ api' = [NoApi EXCEPT !.name = "InitEndpoint",
                                !.args = <<contentURL, metadataURL>>,
                                !.result = IF ok THEN "ok" ELSE "err",
                                !.err = IF ok THEN NilError ELSE PlainError("parse")]
        /\ outcome' = [outcome EXCEPT ![c] = IF ok THEN "ok" ELSE "err"]
  /\ op' = [op EXCEPT ![c] = "InitEndpoint"]
  /\ pc' = [pc EXCEPT ![c] = "done"]
  /\ UNCHANGED <<now, authVars, MaxRetries, reqVars, token, respVal, err,
                 refreshSent, obs, stats, ctx, handled, svcVars, granted>>

\* What the account endpoint answers with status 200, as the HTTP client
\* decodes it into e: a customer with its two URLs, or no customer.
EndpointAnswers ==
  {[CustomerExists |-> TRUE, ContentUrl |-> ContentURLA, MetadataUrl |-> MetadataURLA],
   [CustomerExists |-> TRUE, ContentUrl |-> ContentURLB, MetadataUrl |-> MetadataURLB],
   NoEndpoint}

\* d.GetEndpoint(ctx): e = &Endpoint{}; d.Request(d.EndpointClient, GET
\* /account/endpoint).  The request has no body and can be copied.
CallGetEndpoint(c) ==
  /\ pc[c] = "idle"
  /\ api' = [NoApi EXCEPT !.name = "GetEndpoint"]
  /\ StartRequest(c, TRUE)
  /\ UNCHANGED <<ContentClient, MetadataClient, ctx, handled, svcVars, granted>>

\* GetEndpoint after d.Request returned: if err != nil { return nil, err };
\* if !e.CustomerExists { return nil, ErrCustomerNotFound }; return e, nil.
GetEndpoint_Return(c) ==
  /\ api.name = "GetEndpoint" /\ api.result = "none"
  /\ pc[c] = "done"
  /\ IF outcome[c] = "err"
       THEN api' = [api EXCEPT !.result = "err", !.err = err[c]]
       ELSE \E e \in EndpointAnswers :
              api' = [api EXCEPT
                        !.endpoint = e,
                        !.result = IF e.CustomerExists THEN "ok" ELSE "err",
                        !.err = IF e.CustomerExists THEN NilError
                                ELSE ErrCustomerNotFound,
                        !.out = IF e.CustomerExists
                                  THEN [NilOut EXCEPT !.nil = FALSE,
                                                      !.ContentUrl = e.ContentUrl,
                                                      !.MetadataUrl = e.MetadataUrl]
                                  ELSE NilOut]
  /\ UNCHANGED <<now, authVars, MaxRetries, pc, op, reqVars, token, respVal,
                 err, outcome, refreshSent, obs, stats, ContentClient,
                 MetadataClient, ctx, handled, svcVars, granted>>

\* d.MetadataRequest(request): an error when InitEndpoint has not set the
\* metadata client, d.Request(d.MetadataClient, request) otherwise.
NotInitialized == PlainError("metadata client not initialized")

MetadataRequest_NoCheck(c) == StartRequest(c, TRUE)

MetadataRequest(c) ==
  IF MetadataClient = NilClient
    THEN /\ op' = [op EXCEPT ![c] = "MetadataRequest"]
         /\ pc' = [pc EXCEPT ![c] = "done"]
         /\ err' = [err EXCEPT ![c] = NotInitialized]
         /\ outcome' = [outcome EXCEPT ![c] = "err"]
         /\ stats' = [stats EXCEPT ![c] = NoStats]
         /\ UNCHANGED <<now, authVars, MaxRetries, reqVars, token, respVal,
                        refreshSent, obs>>
    ELSE StartRequest(c, TRUE)

\* The continuation tokens of the listing, by page number.
Tokens == <<"token-1", "token-2", "token-3", "token-4">>

\* What the children listing answers to page request number k with status
\* 200, as the HTTP client decodes it into ns: no node or the node k, and a
\* nextToken or none.  The listing has at most MaxPages pages.
PageAnswers(k) ==
  {[nodes |-> ns, NextToken |-> t] :
     ns \in {<<>>, <<k>>},
     t \in IF k < MaxPages THEN {"", Tokens[k]} ELSE {""}}

\* d.NodeChildren(ctx, parentId): nextToken := ""; nodes = []*Node{}; the first
\* iteration sends no startToken.
CallNodeChildren(c) ==
  /\ pc[c] = "idle"
  /\ api' = [NoApi EXCEPT !.name = "NodeChildren",
                          !.asked = IF MetadataClient = NilClient
                                      THEN <<>> ELSE <<"">>]
  /\ MetadataRequest(c)
  /\ UNCHANGED <<ContentClient, MetadataClient, ctx, handled, svcVars, granted>>

\* NodeChildren after d.MetadataRequest returned: an error is returned with
\* nil nodes; an empty page ends the loop; otherwise the page is appended,
\* and an empty NextToken ends the loop, a non-empty one becomes the
\* startToken of the next request.
NodeChildren_Page(c) ==
  /\ api.name = "NodeChildren" /\ api.result = "none"
  /\ pc[c] = "done"
  /\ IF outcome[c] = "err"
       THEN /\ api' = [api EXCEPT !.result = "err", !.err = err[c]]
            /\ UNCHANGED <<now, authVars, MaxRetries, pc, op, reqVars, token,
                           respVal, err, outcome, refreshSent, obs, stats>>
       ELSE \E p \in PageAnswers(Len(api.asked)) :
              LET got == Append(api.got, p)
                  all == api.nodes \o p.nodes
              IN IF Len(p.nodes) = 0
                   THEN /\ api' = [api EXCEPT
                                     !.got = got, !.result = "ok",
                                     !.out = [NilOut EXCEPT !.nil = FALSE,
                                                            !.nodes = api.nodes]]
                        /\ UNCHANGED <<now, authVars, MaxRetries, pc, op,
                                       reqVars, token, respVal, err, outcome,
                                       refreshSent, obs, stats>>
                 ELSE IF p.NextToken = ""
                   THEN /\ api' = [api EXCEPT
                                     !.got = got, !.nodes = all, !.result = "ok",
                                     !.out = [NilOut EXCEPT !.nil = FALSE,
                                                            !.nodes = all]]
                        /\ UNCHANGED <<now, authVars, MaxRetries, pc, op,
                                       reqVars, token, respVal, err, outcome,
                                       refreshSent, obs, stats>>
                 ELSE /\ api' = [api EXCEPT
                                   !.got = got, !.nodes = all,
                                   !.nextToken = p.NextToken,
                                   !.asked = Append(@, p.NextToken)]
                      /\ MetadataRequest(c)
  /\ UNCHANGED <<ContentClient, MetadataClient, ctx, handled, svcVars, granted>>

\* d.ContentRequest(request): an error when InitEndpoint has not set the
\* content client, d.Request(d.ContentClient, request) otherwise.
ContentNotInitialized == PlainError("content client not initialized")

ContentRequest(c, copyable) ==
  IF ContentClient = NilClient
    THEN /\ op' = [op EXCEPT ![c] = "ContentRequest"]
         /\ pc' = [pc EXCEPT ![c] = "done"]
         /\ err' = [err EXCEPT ![c] = ContentNotInitialized]
         /\ outcome' = [outcome EXCEPT ![c] = "err"]
         /\ stats' = [stats EXCEPT ![c] = NoStats]
         /\ UNCHANGED <<now, authVars, MaxRetries, reqVars, token, respVal,
                        refreshSent, obs>>
    ELSE StartRequest(c, copyable)

\* The operations on one node that make a single request and return its
\* error or its value: DeleteNode, RenameNode and MoveNode through
\* d.MetadataRequest, DownloadNode and OverwriteNode through
\* d.ContentRequest.  OverwriteNode uploads a reader as a multipart body,
\* which the HTTP client may not be able to copy.
MetadataOps == {"DeleteNode", "RenameNode", "MoveNode"}
ContentOps == {"DownloadNode", "OverwriteNode"}
NodeOps == MetadataOps \cup ContentOps

CallNodeOp(c, name, copyable) ==
  /\ pc[c] = "idle"
  /\ name \in NodeOps
  /\ name # "OverwriteNode" => copyable
  /\ api' = [NoApi EXCEPT !.name = name]
  /\ IF name \in MetadataOps THEN MetadataRequest(c)
                              ELSE ContentRequest(c, copyable)
  /\ UNCHANGED <<ContentClient, MetadataClient, ctx, handled, svcVars, granted>>

\* After the request returned: if err != nil { return nil, err }; return
\* node, nil (DownloadNode: the body and its length).
NodeOp_Return(c) ==
  /\ api.name \in NodeOps /\ api.result = "none"
  /\ pc[c] = "done"
  /\ api' = IF outcome[c] = "err"
              THEN [api EXCEPT !.result = "err", !.err = err[c]]
              ELSE [api EXCEPT !.result = "ok",
                               !.out = [NilOut EXCEPT !.nil = FALSE]]
  /\ UNCHANGED <<now, authVars, MaxRetries, pc, op, reqVars, token, respVal,
                 err, outcome, refreshSent, obs, stats, ContentClient,
                 MetadataClient, ctx, handled, svcVars, granted>>

\* The context the operation was called with is cancelled or times out while
\* the operation is in a backoff wait or has a request in flight.
Cancel(c) ==
  /\ api.name \in {"GetEndpoint", "NodeChildren"} \cup NodeOps
  /\ api.result = "none"
  /\ pc[c] \in {"Req_sleep", "Req_wait"}
  /\ ~ctx.done
  /\ ctx' = [done |-> TRUE, sent |-> stats[c].dispatched]
  /\ UNCHANGED <<now, authVars, MaxRetries, pc, op, reqVars, token, respVal,
                 err, outcome, refreshSent, obs, stats, ContentClient,
                 MetadataClient, api, handled, svcVars, granted>>

\* The values the caller assigns to d.MaxRetries next to the default.
ApiMaxRetries == {0, MaxRetriesCap - 1}

\* One goroutine using the resource operations of an initialised or not yet
\* initialised client.
InitAPI == Init /\ ExpiresAt = Margin /\ OnTokenRefresh = "nil"

NextAPI ==
  \/ \E a \in EndpointArgs : CallInitEndpoint(Main, a[1], a[2])
  \/ \E n \in ApiMaxRetries : SetMaxRetries(Main, n)
  \/ CallGetEndpoint(Main)
  \/ GetEndpoint_Return(Main)
  \/ CallNodeChildren(Main)
  \/ NodeChildren_Page(Main)
  \/ \E name \in NodeOps, copyable \in BOOLEAN : CallNodeOp(Main, name, copyable)
  \/ NodeOp_Return(Main)
  \/ Cancel(Main)
  \/ RequestStep(Main)
  \/ AuthStep(Main)
  \/ Tick

SpecAPI == InitAPI /\ [][NextAPI]_vars

(******************************* claims ************************************)
Finished(c) == pc[c] \in {"done", "panicked"}

\* C1 (as claimed): a Request with a copyable body whose every attempt was
\* answered 429 has dispatched exactly MaxRetries requests and has returned a
\* CloudDriveError with Code TOO_MANY_REQUESTS.
C1_RateLimitedExhausts ==
  \A c \in Callers :
    ( /\ op[c] = "Request" /\ canRetry[c] /\ Finished(c)
      /\ stats[c].attempts >= 1
      /\ stats[c].n429 = stats[c].attempts )
    => ( /\ pc[c] = "done"
         /\ stats[c].dispatched = stats[c].cfg
         /\ err[c].type = "CloudDriveError"
         /\ err[c].Code = ErrorCodeTooManyRequests )

\* C2: a Request with a copyable body whose attempts 1..k-1 were answered 429
\* and whose attempt k was answered with a success status has returned the
\* response without error after exactly k requests, k <= MaxRetries; and a
\* Request does not give up on 429 answers before MaxRetries requests, so that
\* every k <= MaxRetries is reached.
C2_SucceedsOnKthAttempt ==
  \A c \in Callers :
    /\ ( /\ op[c] = "Request" /\ canRetry[c]
         /\ stats[c].last = "ok"
         /\ stats[c].n429 = stats[c].answered - 1 )
       => ( /\ pc[c] = "done" /\ outcome[c] = "ok" /\ err[c] = NilError
            /\ stats[c].dispatched = stats[c].n429 + 1
            /\ stats[c].dispatched <= stats[c].cfg )
    /\ ( /\ op[c] = "Request" /\ canRetry[c] /\ Finished(c)
         /\ stats[c].last = "429" /\ ~stats[c].authErr
         /\ stats[c].n429 = stats[c].answered )
       => stats[c].dispatched = stats[c].cfg

\* C2 witness: a call that succeeded on its third request after two 429s.
C2_Witness ==
  \E c \in Callers :
    /\ op[c] = "Request" /\ canRetry[c] /\ pc[c] = "done" /\ outcome[c] = "ok"
    /\ stats[c].n429 = 2 /\ stats[c].dispatched = 3

C4_NoRetryOfOtherFailures ==
  \A c \in Callers :
    (op[c] = "Request" /\ stats[c].last = "fail")
    => ( /\ pc[c] = "done" /\ outcome[c] = "err"
         /\ err[c].type \in {"CloudDriveError", "error"}
         /\ stats[c].dispatched = stats[c].answered )

\* C5 (as claimed): when several callers of ValidToken found the stored
\* expiry within the margin before any of them had sent a refresh request,
\* one refresh request is sent in total: once the refresh of one of them has
\* succeeded, no other of them sends a request.
C5_ExactlyOneRefresh ==
  \A c, d \in Callers :
    ( /\ c # d /\ op[c] = "ValidToken" /\ op[d] = "ValidToken"
      /\ obs[c].need /\ obs[d].need /\ obs[c].base = obs[d].base
      /\ obs[c].sent = 1 /\ pc[c] \in {"VT_read", "done"}
      /\ err[c].type = "nil" )
    => obs[d].sent = 0

\* A caller is refreshing: its refresh request is sent and the update of the
\* credential state is not finished.
Refreshing(c) == pc[c] \in {"URT_wait", "URT_token", "URT_expiry"}

\* C6: at most one caller is between sending the refresh request and
\* finishing the update of the credential state.
C6_OneRefreshInFlight == Cardinality({c \in Callers : Refreshing(c)}) <= 1

\* C6 witness: one caller is refreshing while another, which also found the
\* token within the margin, waits for the mutex.
C6_Witness ==
  \E c, d \in Callers :
    c # d /\ Refreshing(c) /\ pc[d] = "URT_lock" /\ obs[d].need

\* C7 (as claimed): a ValidToken call that did not refresh itself returns a
\* token that belongs to the same credential state as the expiry it tested.
C7_AtomicView ==
  \A c \in Callers :
    ( /\ op[c] = "ValidToken" /\ pc[c] = "done" /\ outcome[c] = "ok"
      /\ obs[c].sent = 0 )
    => ~obs[c].mixed

\* C8: a ValidToken call that found the clock past the expiry minus five
\* minutes has sent a refresh request and received its answer before it
\* returns, and a token it returns was issued to a request sent after its
\* test; a call that found the token outside the margin returns a stored
\* token without error and has sent no refresh request.
C8_RefreshBeforeReturn ==
  \A c \in Callers :
    (op[c] = "ValidToken" /\ pc[c] = "done")
    => IF obs[c].need
         THEN /\ obs[c].sent = 1
              /\ outcome[c] = "ok" => (err[c] = NilError /\ token[c] > obs[c].base)
         ELSE /\ obs[c].sent = 0
              /\ outcome[c] = "ok" /\ err[c] = NilError
              /\ token[c] \in 0..refreshSent

\* C8 witness: a call within the margin has returned the token of its own
\* refresh.
C8_Witness ==
  \E c \in Callers :
    /\ op[c] = "ValidToken" /\ pc[c] = "done" /\ outcome[c] = "ok"
    /\ obs[c].need /\ obs[c].sent = 1 /\ token[c] = obs[c].base + 1

\* C9: in a successful refresh the access token is the returned access_token
\* and the expiry is the clock plus expires_in when the hook is about to run;
\* the hook has not run before and, when set, has run exactly once when the
\* refresh is over; ClientId, ClientSecret, RedirectUri and RefreshToken
\* never change.
C9_SuccessfulRefresh ==
  /\ creds = InitCreds
  /\ \A c \in Callers :
       /\ pc[c] \in {"URT_wait", "URT_token", "URT_expiry", "URT_hook"}
          => obs[c].hooks = 0
       /\ (pc[c] = "URT_hook" \/ (pc[c] = "URT_unlock" /\ err[c].type = "nil"))
          => /\ AccessToken = respVal[c].AccessToken
             /\ respVal[c].AccessToken = refreshSent
             /\ ExpiresAt = obs[c].at + respVal[c].ExpiresIn
             /\ obs[c].at <= now
       /\ (pc[c] = "URT_unlock" /\ err[c].type = "nil")
          => obs[c].hooks = IF OnTokenRefresh = "set" THEN 1 ELSE 0
       /\ (pc[c] = "URT_unlock" /\ err[c].type # "nil") => obs[c].hooks = 0

\* C9 witness: a refresh that set the expiry after the clock had advanced has
\* run the hook once.
C9_Witness ==
  \E c \in Callers :
    /\ pc[c] = "URT_unlock" /\ err[c].type = "nil"
    /\ obs[c].hooks = 1 /\ obs[c].at >= 1

\* C10 (as claimed): after a failed refresh ValidToken returns an error and
\* no token, the stored access token and expiry are as they were, and the
\* hook has not run.
C10_RefreshFailureReturned ==
  \A c \in Callers :
    (op[c] = "ValidToken" /\ err[c].type # "nil")
    => /\ err[c].type \in {"CloudDriveError", "error"}
       /\ pc[c] \in {"URT_unlock", "done"}
       /\ pc[c] = "done" => outcome[c] = "err"
       /\ token[c] = -1
       /\ obs[c].hooks = 0
       /\ AccessToken < refreshSent
       /\ pc[c] = "URT_unlock" => ExpiresAt = obs[c].exp

\* C11 (as claimed): when the refresh request is answered with an unexpected
\* status whose body is an OAuth error object, the error UpdateRefreshToken
\* returns has the object's error as Code and its error_description as
\* Message, whatever the content type of the answer.
C11_OAuthErrorRewritten ==
  \A c \in Callers :
    ( /\ pc[c] = "URT_unlock" /\ err[c].type # "nil"
      /\ JSONDecode(err[c].Content).valid
      /\ ~JSONDecode(err[c].Content).null
      /\ JSONDecode(err[c].Content).error # "" )
    => /\ err[c].type = "CloudDriveError"
       /\ err[c].Code = JSONDecode(err[c].Content).error
       /\ err[c].Message = JSONDecode(err[c].Content).error_description

(************************* the error normalizer ****************************)
\* HandleError called directly (it is an exported function), on every error
\* a request can end with and on an error that is a CloudDriveError already.
NormInputs == ResponseErrors \cup {ErrCustomerNotFound}

CallHandleError(e) ==
  /\ handled.st = "none"
  /\ handled' = [st |-> "called", arg |-> e, res |-> NilError]
  /\ UNCHANGED <<now, authVars, MaxRetries, pc, op, reqVars, token, respVal,
                 err, outcome, refreshSent, obs, stats, ContentClient,
                 MetadataClient, ctx, api, svcVars, granted>>

\* HandleError runs to its return statement, or panics on the way.
HandleError_Return ==
  /\ handled.st = "called"
  /\ LET h == HandleError(handled.arg)
     IN handled' = [handled EXCEPT
                      !.st = IF h.type = "panic" THEN "panicked" ELSE "returned",
                      !.res = h]
  /\ UNCHANGED <<now, authVars, MaxRetries, pc, op, reqVars, token, respVal,
                 err, outcome, refreshSent, obs, stats, ContentClient,
                 MetadataClient, ctx, api, svcVars, granted>>

\* The caller drops the result and may call again.
HandleError_Drop ==
  /\ handled.st = "returned"
  /\ handled' = NoCall
  /\ UNCHANGED <<now, authVars, MaxRetries, pc, op, reqVars, token, respVal,
                 err, outcome, refreshSent, obs, stats, ContentClient,
                 MetadataClient, ctx, api, svcVars, granted>>

InitNorm == Init /\ ExpiresAt = Margin /\ OnTokenRefresh = "nil"

NextNorm ==
  \/ \E e \in NormInputs : CallHandleError(e)
  \/ HandleError_Return
  \/ HandleError_Drop

SpecNorm == InitNorm /\ [][NextNorm]_vars

\* The Content-Type values HandleError parses the body for.
IsJSONType(ct) == ct \in {"application/vnd.error+json", "application/json"}

\* C13 (as claimed): HandleError returns every error that is no unexpected
\* status unchanged, and returns a CloudDriveError for every unexpected
\* status.
C13_OnlyStatusErrorsNormalized ==
  handled.st \in {"returned", "panicked"}
  => IF handled.arg.type = "InvalidStatusError"
       THEN handled.st = "returned" /\ handled.res.type = "CloudDriveError"
       ELSE handled.st = "returned" /\ handled.res = handled.arg

\* C14 (as claimed): for an unexpected status HandleError returns an error
\* that retains the raw failure (status, content, headers); its code, message
\* and logref are the members of the body when the content type is a JSON
\* error type and the body parses, and else its Code is "unknown" and its
\* Message the raw body (the 404 and 429 rules may then replace the code, and
\* the 429 rule an empty message).
C14_ParseOrUnknown ==
  (handled.st \in {"returned", "panicked"} /\ handled.arg.type = "InvalidStatusError")
  => LET a == handled.arg
         r == handled.res
         j == JSONDecode(a.Content)
         parsed == IsJSONType(a.ContentType) /\ j.valid
         plain == a.Got \notin {StatusNotFound, StatusTooManyRequests}
     IN /\ handled.st = "returned" /\ r.type = "CloudDriveError"
        /\ r.wrapped /\ r.Got = a.Got /\ r.ContentType = a.ContentType
        /\ r.Content = a.Content
        /\ parsed => /\ r.Logref = j.logref
                     /\ plain => (r.Code = j.code /\ r.Message = j.message)
        /\ ~parsed => /\ r.Message = a.Content
                      /\ plain => r.Code = "unknown"

\* C16 (as claimed): HandleError turns every 429 into a CloudDriveError with
\* Code TOO_MANY_REQUESTS, whatever the code, the content type and the parse
\* result of the body; the Message is the body's message (the raw body when
\* it is not parsed), and "Rate exceeded" when that is empty.
C16_RateLimitNormalized ==
  ( /\ handled.st \in {"returned", "panicked"}
    /\ handled.arg.type = "InvalidStatusError"
    /\ handled.arg.Got = StatusTooManyRequests )
  => LET a == handled.arg
         r == handled.res
         j == JSONDecode(a.Content)
         m == IF IsJSONType(a.ContentType) /\ j.valid THEN j.message ELSE a.Content
     IN /\ handled.st = "returned" /\ r.type = "CloudDriveError"
        /\ r.Code = ErrorCodeTooManyRequests
        /\ r.Message = IF m = "" THEN "Rate exceeded" ELSE m

\* C19 (as claimed): the mutex is not held by a caller while its
\* OnTokenRefresh hook runs nor while ValidToken reads the token, and no
\* caller waits in a.mutex.Lock() for the mutex it holds itself (a hook that
\* calls UpdateRefreshToken does not block forever).
C19_LockOnlyAcrossRoundTrip ==
  \A c \in Callers :
    /\ (pc[c] = "URT_hook" /\ OnTokenRefresh # "nil") => mutex # c
    /\ pc[c] = "VT_read" => mutex # c
    /\ ~(pc[c] = "URT_lock" /\ mutex = c)

\* C12 (as claimed): once the context of a call is cancelled or timed out,
\* a backoff wait of its Request ends (the wait can be left at once, whatever
\* is left of its duration), no further request is dispatched, and the
\* Request returns the context's error.
C12_CancelEndsBackoff ==
  \A c \in Callers :
    (ctx.done /\ op[c] = "Request")
    => /\ pc[c] = "Req_sleep" => ENABLED Request_Wake(c)
       /\ stats[c].dispatched = ctx.sent
       /\ pc[c] = "done" => (outcome[c] = "err" /\ err[c] = ContextCanceled)

\* C15: an error that retains a 404 failure whose body, parsed under a JSON
\* error content type, has an empty code and the message "Node does not
\* exists" is a CloudDriveError with Code NODE_NOT_FOUND and that message;
\* the Request that received the failure has returned it, and the resource
\* operation that made the Request returns that same error and no value.
C15_NodeNotFound ==
  \A c \in Callers :
    LET e == err[c]
        j == JSONDecode(e.Content)
    IN ( /\ e.wrapped /\ e.Got = StatusNotFound /\ IsJSONType(e.ContentType)
         /\ j.valid /\ ~j.null /\ j.code = ""
         /\ j.message = "Node does not exists" )
       => /\ e.type = "CloudDriveError"
          /\ e.Code = ErrorCodeNodeNotFound
          /\ e.Message = "Node does not exists"
          /\ pc[c] = "done" /\ outcome[c] = "err"
          /\ (api.name \in {"NodeChildren"} \cup NodeOps /\ api.result # "none")
             => (api.result = "err" /\ api.err = e /\ api.out.nil)

\* C15 witness: OverwriteNode on a node the server does not know has
\* returned NODE_NOT_FOUND.
C15_Witness ==
  /\ api.name = "OverwriteNode"
  /\ api.result = "err"
  /\ api.err.Code = ErrorCodeNodeNotFound
  /\ api.err.Got = StatusNotFound
  /\ api.err.Content = BodyNodeMissing

\* C17 (as claimed): GetEndpoint never panics; it returns ErrCustomerNotFound
\* exactly when its request succeeded and the answer has customerExists =
\* false; when the request failed it returns the request's error; when
\* customerExists is true it returns the endpoint with both URLs.
C17_GetEndpointOutcomes ==
  \A c \in Callers :
    (api.name = "GetEndpoint" /\ op[c] = "Request")
    => /\ pc[c] # "panicked"
       /\ api.result # "none"
          => /\ (api.result = "err" /\ api.err = ErrCustomerNotFound)
                <=> (outcome[c] = "ok" /\ ~api.endpoint.CustomerExists)
             /\ outcome[c] = "err"
                => (api.result = "err" /\ api.err = err[c] /\ api.out.nil)
             /\ (outcome[c] = "ok" /\ api.endpoint.CustomerExists)
                => /\ api.result = "ok" /\ api.err = NilError /\ ~api.out.nil
                   /\ api.out.ContentUrl = api.endpoint.ContentUrl
                   /\ api.out.MetadataUrl = api.endpoint.MetadataUrl

\* InitEndpoint has succeeded: both clients are set.
EndpointInitialised == ContentClient # NilClient /\ MetadataClient # NilClient

RECURSIVE ConcatPages(_, _)
ConcatPages(p, n) == IF n = 0 THEN <<>> ELSE ConcatPages(p, n - 1) \o p[n].nodes

\* C20 (as claimed): NodeChildren never panics; the first page request has
\* no startToken and each further one has the nextToken of the page before
\* it; NodeChildren returns only when the last page received has an empty
\* nextToken, and then returns the nodes of all pages in request order; when
\* a page request fails it returns that error and no nodes.
C20_AllPagesFetched ==
  LET c == Main
  IN
    api.name = "NodeChildren"
    => /\ pc[c] # "panicked"
       /\ Len(api.asked) >= 1 => api.asked[1] = ""
       /\ \A i \in 2..Len(api.asked) : api.asked[i] = api.got[i - 1].NextToken
       /\ api.result = "ok"
          => /\ Len(api.got) = Len(api.asked) /\ Len(api.got) >= 1
             /\ api.got[Len(api.got)].NextToken = ""
             /\ ~api.out.nil
             /\ api.out.nodes = ConcatPages(api.got, Len(api.got))
       /\ (api.result = "none" /\ pc[c] = "done" /\ outcome[c] = "err")
          => ENABLED NodeChildren_Page(c)
       /\ api.result = "err"
          => (outcome[c] = "err" /\ api.err = err[c] /\ api.out.nil)

(***************************** the change feed *****************************)
MaxNodes == 2          \* nodes the remote service comes to hold

\* The remote service, as the specification describes it: it holds its nodes
\* in creation order, and a checkpoint is an opaque cursor that marks how
\* many of them the caller has seen.
CheckpointNames ==
  <<"checkpoint-0", "checkpoint-1", "checkpoint-2", "checkpoint-3",
    "checkpoint-4", "checkpoint-5">>

CheckpointOf(k) == CheckpointNames[k + 1]

PositionOf(cp) == CHOOSE k \in 0..(Len(CheckpointNames) - 1) : CheckpointOf(k) = cp

\* Changes: the request gets a JSON body {"checkpoint": checkpoint} when the
\* checkpoint is not empty, and no body otherwise.
ChangesBody_Never(checkpoint) == [json |-> FALSE, checkpoint |-> ""]

ChangesBody(checkpoint) ==
  IF checkpoint # "" THEN [json |-> TRUE, checkpoint |-> checkpoint]
                     ELSE [json |-> FALSE, checkpoint |-> ""]

\* POST /changes on the service: without a checkpoint every node and reset =
\* true, with one the nodes created after it and reset = false; in both
\* cases the checkpoint of the present state.
ServeChanges(st, body) ==
  LET k == IF body.json THEN PositionOf(body.checkpoint) ELSE 0
  IN [Checkpoint |-> CheckpointOf(Len(st)),
      nodes |-> [i \in 1..(Len(st) - k) |-> k + i],
      Reset |-> ~body.json]

\* The answer on the wire: the JSON document, gzip-compressed or not, under
\* a Content-Encoding header that says gzip or nothing.
ChangesWire(doc) ==
  {[ContentEncoding |-> h, packed |-> z, doc |-> doc] :
     h \in {"", "gzip"}, z \in BOOLEAN}

\* Changes, after the request: r := res.Body; under Content-Encoding gzip,
\* gzip.NewReader(r), which fails on data that is not gzip; then
\* json.NewDecoder(r).Decode(changes), which fails on compressed data.
DecodeChanges(w) ==
  LET gunzip == w.ContentEncoding = "gzip"
      packed == IF gunzip THEN FALSE ELSE w.packed
  IN IF gunzip /\ ~w.packed THEN [err |-> PlainError("gzip: invalid header"),
                                  doc |-> w.doc]
     ELSE IF packed THEN [err |-> PlainError("invalid character"), doc |-> w.doc]
     ELSE [err |-> NilError, doc |-> w.doc]

\* d.Changes(ctx, checkpoint), with no checkpoint or the one the caller kept.
CallChanges(c, checkpoint) ==
  /\ pc[c] = "idle"
  /\ checkpoint \in {"", held.Checkpoint}
  /\ api' = [NoApi EXCEPT !.name = "Changes", !.args = <<checkpoint>>,
                          !.req = ChangesBody(checkpoint)]
  /\ MetadataRequest(c)
  /\ UNCHANGED <<ContentClient, MetadataClient, ctx, handled, svcVars, granted>>

\* Changes after d.MetadataRequest returned: if err != nil { return nil, err };
\* the body is unpacked and decoded; an error of either is returned with
\* nil, else the decoded value.
Changes_Return(c) ==
  /\ api.name = "Changes" /\ api.result = "none"
  /\ pc[c] = "done"
  /\ IF outcome[c] = "err"
       THEN api' = [api EXCEPT !.result = "err", !.err = err[c]]
       ELSE \E w \in ChangesWire(ServeChanges(store, api.req)) :
              LET d == DecodeChanges(w)
              IN api' = IF d.err # NilError
                          THEN [api EXCEPT !.result = "err", !.err = d.err]
                          ELSE [api EXCEPT
                                  !.result = "ok",
                                  !.out = [NilOut EXCEPT
                                             !.nil = FALSE,
                                             !.Checkpoint = d.doc.Checkpoint,
                                             !.nodes = d.doc.nodes,
                                             !.Reset = d.doc.Reset]]
  /\ UNCHANGED <<now, authVars, MaxRetries, pc, op, reqVars, token, respVal,
                 err, outcome, refreshSent, obs, stats, ContentClient,
                 MetadataClient, ctx, handled, svcVars, granted>>

\* d.CreateFolder(ctx, parentId, name): POST /nodes with the JSON of a
\* NodeCreate of kind FOLDER, through d.MetadataRequest.
CallCreateFolder(c) ==
  /\ pc[c] = "idle"
  /\ Len(store) < MaxNodes
  /\ api' = [NoApi EXCEPT !.name = "CreateFolder",
                          !.req = [kind |-> "FOLDER", data |-> <<>>]]
  /\ MetadataRequest(c)
  /\ UNCHANGED <<ContentClient, MetadataClient, ctx, handled, svcVars, granted>>

\* CreateFolder after d.MetadataRequest returned: if err != nil { return nil,
\* err }; return node, nil.  The service answered 201: it holds the node.
CreateFolder_Return(c) ==
  /\ api.name = "CreateFolder" /\ api.result = "none"
  /\ pc[c] = "done"
  /\ IF outcome[c] = "err"
       THEN /\ api' = [api EXCEPT !.result = "err", !.err = err[c]]
            /\ store' = store
       ELSE /\ store' = Append(store, api.req)
            /\ api' = [api EXCEPT !.result = "ok",
                                  !.out = [NilOut EXCEPT !.nil = FALSE,
                                                         !.Id = Len(store) + 1]]
  /\ UNCHANGED <<now, authVars, MaxRetries, pc, op, reqVars, token, respVal,
                 err, outcome, refreshSent, obs, stats, ContentClient,
                 MetadataClient, ctx, handled, held, granted>>

\* One goroutine that creates folders and polls the change feed.
InitFeed == Init /\ ExpiresAt = Margin /\ OnTokenRefresh = "nil"

NextFeed ==
  \/ CallInitEndpoint(Main, ContentURLA, MetadataURLA)
  \/ CallCreateFolder(Main)
  \/ CreateFolder_Return(Main)
  \/ \E cp \in {""} \cup {CheckpointOf(k) : k \in 0..MaxNodes} :
       CallChanges(Main, cp)
  \/ Changes_Return(Main)
  \/ RequestStep(Main)
  \/ AuthStep(Main)
  \/ Tick

SpecFeed == InitFeed /\ [][NextFeed]_vars

\* C21: a Changes call that returns a value has reset = true when it was
\* called with the empty checkpoint; called with the checkpoint the caller
\* kept from its last Changes value, it has reset = false, an empty node list
\* when no node was created since that value was returned, and a non-empty
\* one when a node was.
C21_ChangeFeed ==
  (api.name = "Changes" /\ api.result = "ok")
  => /\ ~api.out.nil
     /\ api.args[1] = "" => api.out.Reset
     /\ api.args[1] # ""
        => /\ api.args[1] = held.Checkpoint
           /\ ~api.out.Reset
           /\ Len(store) = held.at => api.out.nodes = <<>>
           /\ Len(store) > held.at => api.out.nodes # <<>>

\* C21 witness: the caller kept a checkpoint issued when the service held
\* one node; a folder was created since, and the Changes call with the kept
\* checkpoint has returned that folder alone, with reset = false.
C21_Witness ==
  /\ api.name = "Changes" /\ api.result = "ok"
  /\ held.Checkpoint # "" /\ api.args[1] = held.Checkpoint
  /\ held.at = 1 /\ Len(store) = 2
  /\ api.out.nodes = <<2>> /\ ~api.out.Reset

(*************************** upload and download ***************************)
MaxPayload == 5        \* bytes of the longest payload uploaded

\* The payloads the caller uploads: "12345" (up to MaxPayload) and "67".
Bytes(n, k) == [i \in 1..n |-> (i + k) % 10]

Payloads == {Bytes(MaxPayload, 0), Bytes(2, 5)}

\* *ioutils.FileSpan: nil, or Start and End.  The caller asks for spans
\* that lie within the node it downloads.
NilSpan == [nil |-> TRUE, Start |-> 0, End |-> 0]

Spans(n) ==
  {NilSpan} \cup {[nil |-> FALSE, Start |-> s, End |-> e] :
                    s \in 0..(n - 1), e \in 0..(n - 1)}

\* DownloadNode: if span != nil, the header Range is
\* fmt.Sprintf("bytes=%d-%d", span.Start, span.End); no header otherwise.
RangeHeader_EndExclusive(span) ==
  IF span.nil THEN <<>> ELSE <<"bytes=", span.Start, "-", span.End - 1>>

RangeHeader(span) ==
  IF span.nil THEN <<>> ELSE <<"bytes=", span.Start, "-", span.End>>

\* GET /nodes/{id}/content on the service: without a Range header status 200
\* with the whole content; with Range: bytes=first-last status 206 with the
\* bytes at offsets first..last, both included.  Content-Length is the
\* number of bytes sent.
ServeContent(data, range) ==
  IF Len(range) = 0
    THEN [Status |-> 200, Body |-> data, ContentLength |-> Len(data)]
    ELSE LET first == range[2]
             last == range[4]
         IN [Status |-> 206,
             Body |-> [i \in 1..(last - first + 1) |-> data[first + i]],
             ContentLength |-> last - first + 1]

\* d.UploadNode(ctx, parentId, name, reader): POST /nodes with a multipart
\* body of the file read from reader and the JSON of a NodeCreate of kind
\* FILE, through d.ContentRequest.  The HTTP client may not be able to copy
\* the body.
CallUploadNode(c, payload, copyable) ==
  /\ pc[c] = "idle"
  /\ Len(store) < MaxNodes
  /\ api' = [NoApi EXCEPT !.name = "UploadNode", !.args = <<payload>>,
                          !.req = [kind |-> "FILE", data |-> payload]]
  /\ ContentRequest(c, copyable)
  /\ UNCHANGED <<ContentClient, MetadataClient, ctx, handled, svcVars, granted>>

\* UploadNode after d.ContentRequest returned: if err != nil { return nil,
\* err }; return node, nil.  The service answered 201: it holds the node.
UploadNode_Return(c) ==
  /\ api.name = "UploadNode" /\ api.result = "none"
  /\ pc[c] = "done"
  /\ IF outcome[c] = "err"
       THEN /\ api' = [api EXCEPT !.result = "err", !.err = err[c]]
            /\ store' = store
       ELSE /\ store' = Append(store, api.req)
            /\ api' = [api EXCEPT !.result = "ok",
                                  !.out = [NilOut EXCEPT !.nil = FALSE,
                                                         !.Id = Len(store) + 1]]
  /\ UNCHANGED <<now, authVars, MaxRetries, pc, op, reqVars, token, respVal,
                 err, outcome, refreshSent, obs, stats, ContentClient,
                 MetadataClient, ctx, handled, held, granted>>

\* d.DownloadNode(ctx, nodeId, span) for a node the caller uploaded: GET
\* /nodes/{nodeId}/content through d.ContentRequest.
CallDownloadNode(c, nodeId, span) ==
  /\ pc[c] = "idle"
  /\ nodeId \in 1..Len(store)
  /\ span \in Spans(Len(store[nodeId].data))
  /\ ~span.nil => span.Start <= span.End
  /\ api' = [NoApi EXCEPT !.name = "DownloadNode", !.args = <<nodeId, span>>,
                          !.req = [Id |-> nodeId, Range |-> RangeHeader(span)]]
  /\ ContentRequest(c, TRUE)
  /\ UNCHANGED <<ContentClient, MetadataClient, ctx, handled, svcVars, granted>>

\* DownloadNode after d.ContentRequest returned: if err != nil { return nil,
\* 0, err }; return res.Body, res.ContentLength, nil.
DownloadNode_Return(c) ==
  /\ api.name = "DownloadNode" /\ api.result = "none"
  /\ pc[c] = "done"
  /\ api' = IF outcome[c] = "err"
              THEN [api EXCEPT !.result = "err", !.err = err[c]]
              ELSE LET res == ServeContent(store[api.req.Id].data, api.req.Range)
                   IN [api EXCEPT !.result = "ok",
                                  !.out = [NilOut EXCEPT
                                             !.nil = FALSE,
                                             !.body = res.Body,
                                             !.size = res.ContentLength]]
  /\ UNCHANGED <<now, authVars, MaxRetries, pc, op, reqVars, token, respVal,
                 err, outcome, refreshSent, obs, stats, ContentClient,
                 MetadataClient, ctx, handled, svcVars, granted>>

\* One goroutine that uploads files and downloads them, within the second in
\* which the client was constructed and with a token that is not yet within
\* the margin: ValidToken returns the stored token, and a backoff wait ends
\* only when it is of 0 seconds.
InitContent == Init /\ ExpiresAt = Margin /\ OnTokenRefresh = "nil"

NextContent ==
  \/ CallInitEndpoint(Main, ContentURLA, MetadataURLA)
  \/ \E payload \in Payloads, copyable \in BOOLEAN :
       CallUploadNode(Main, payload, copyable)
  \/ UploadNode_Return(Main)
  \/ \E nodeId \in 1..MaxNodes, span \in Spans(MaxPayload) :
       CallDownloadNode(Main, nodeId, span)
  \/ DownloadNode_Return(Main)
  \/ RequestStep(Main)
  \/ ValidToken_Check(Main)
  \/ ValidToken_Return(Main)
  \/ Return(Main)

SpecContent == InitContent /\ [][NextContent]_vars

\* The bytes of data at offsets first..last, both included.
Slice(data, first, last) == [i \in 1..(last - first + 1) |-> data[first + i]]

\* C22: an UploadNode that returns a node has stored its payload under the
\* node's id; a DownloadNode of an uploaded node that returns without error
\* returns, without a span, exactly the payload and its length as size, and,
\* with a span [start, end] within the payload, exactly the bytes at offsets
\* start..end and end - start + 1 as size.
C22_RoundTrip ==
  /\ (api.name = "UploadNode" /\ api.result = "ok")
     => /\ api.out.Id \in 1..Len(store)
        /\ store[api.out.Id].data = api.args[1]
  /\ (api.name = "DownloadNode" /\ api.result = "ok")
     => LET payload == store[api.args[1]].data
            span == api.args[2]
        IN IF span.nil
             THEN api.out.body = payload /\ api.out.size = Len(payload)
             ELSE /\ api.out.body = Slice(payload, span.Start, span.End)
                  /\ api.out.size = span.End - span.Start + 1

\* C22 witness: "12345" was uploaded second, and the download of that node
\* with the span [2, 3] has returned "34" and size 2.
C22_Witness ==
  /\ api.name = "DownloadNode" /\ api.result = "ok"
  /\ api.args[1] = 2
  /\ store[2].data = <<1, 2, 3, 4, 5>>
  /\ api.args[2] = [nil |-> FALSE, Start |-> 2, End |-> 3]
  /\ api.out.body = <<3, 4>> /\ api.out.size = 2

\* C22, the case without a span: the download of "12345" has returned
\* "12345" and size 5.
C22_WitnessWhole ==
  /\ api.name = "DownloadNode" /\ api.result = "ok"
  /\ api.args[2] = NilSpan
  /\ api.out.body = <<1, 2, 3, 4, 5>> /\ api.out.size = 5

\* A caller is inside the ValidToken call of an attempt of its Request, or has
\* the token and has not yet dispatched.
BeforeDispatch(c) ==
  pc[c] \in {"VT_check", "URT_lock", "URT_wait", "URT_token", "URT_expiry",
             "URT_hook", "URT_unlock", "VT_read", "Req_send"}

C23_WitnessFresh ==
  \E c \in Callers :
    /\ op[c] = "Request" /\ pc[c] = "Req_wait"
    /\ stats[c].attempts = 2 /\ obs[c].sent = 1
    /\ stats[c].hdr = <<"Bearer ", refreshSent>> /\ refreshSent >= 1

\* C24: a backoff wait starts only when an attempt was answered 429 and
\* attempts remain, and then for a whole number of seconds s with 0 <= s <
\* 2^n, n the zero-based index of the attempt (0 seconds after the first
\* attempt); the next attempt starts no earlier than s seconds later; an
\* attempt that was the last one, or that failed otherwise, ends the Request
\* without a wait.
C24_BackoffBelowPowerOfTwo ==
  [][\A c \in Callers :
       /\ (pc[c] # "Req_sleep" /\ pc'[c] = "Req_sleep")
          => /\ pc[c] = "Req_wait"
             /\ stats'[c].last = "429"
             /\ retry[c] + 1 < retries[c]
             /\ retry[c] = stats[c].attempts - 1
             /\ wakeAt'[c] - now >= 0
             /\ wakeAt'[c] - now < Pow2(retry[c])
             /\ retry[c] = 0 => wakeAt'[c] = now
       /\ (pc[c] = "Req_sleep" /\ pc'[c] # "Req_sleep")
          => /\ now >= wakeAt[c]
             /\ pc'[c] = "Req_loop" /\ retry'[c] = retry[c] + 1
       /\ ( /\ pc[c] = "Req_wait" /\ pc'[c] # "Req_wait"
            /\ \/ stats'[c].last = "fail"
               \/ stats'[c].last = "429" /\ retry[c] + 1 >= retries[c] )
          => /\ pc'[c] \in {"done", "panicked"}
             /\ wakeAt'[c] = wakeAt[c] /\ wakeAt[c] = 0
    ]_vars

\* C24 witness: the third attempt (index 2) was answered 429 with attempts
\* left, and the wait drawn is of 3 seconds, the largest below 2^2.
C24_Witness ==
  \E c \in Callers :
    /\ pc[c] = "Req_sleep" /\ retry[c] = 2 /\ stats[c].n429 = 3
    /\ wakeAt[c] = now + 3

\* C25: an attempt that failed because the context of the call was cancelled
\* or timed out ends the Request: the Request has returned the context's
\* error as it is (no CloudDriveError around it), and no request was
\* dispatched after the cancellation, whatever is left of the retry budget.
C25_CancelledNotRetried ==
  \A c \in Callers :
    (op[c] = "Request" /\ ctx.done /\ stats[c].last = "fail")
    => /\ pc[c] = "done" /\ outcome[c] = "err"
       /\ err[c] = ContextCanceled
       /\ err[c].type = "error" /\ ~err[c].wrapped
       /\ stats[c].dispatched = ctx.sent
       /\ (api.result # "none") => (api.result = "err" /\ api.err = ContextCanceled)

\* C25 witness: the first attempt of a request with a retry budget of 2 or
\* more was cancelled in flight, and the Request has returned the context's
\* error after that one request.
C25_Witness ==
  \E c \in Callers :
    /\ op[c] = "Request" /\ ctx.done /\ pc[c] = "done"
    /\ stats[c].last = "fail" /\ canRetry[c]
    /\ retry[c] = 0 /\ retries[c] >= 2
    /\ stats[c].dispatched = 1 /\ ctx.sent = 1
    /\ err[c] = ContextCanceled

\* C26 (as claimed): whatever MaxRetries is, a Request that is over has made
\* at least one attempt and has returned a response or an error; the
\* panic("unreachable") after the loop is not reached.
C26_UnreachableNotReached ==
  \A c \in Callers :
    (op[c] = "Request" /\ Finished(c))
    => /\ stats[c].attempts >= 1
       /\ pc[c] = "done"
       /\ outcome[c] \in {"ok", "err"}

\* The resource operations that go through d.MetadataRequest and those that
\* go through d.ContentRequest.
ViaMetadata == MetadataOps \cup {"NodeChildren", "Changes", "CreateFolder"}
ViaContent == ContentOps \cup {"UploadNode"}

\* C27: on a client whose InitEndpoint has not succeeded (both clients nil)
\* the call of a resource operation built on MetadataRequest or
\* ContentRequest is over at once with the error "metadata client not
\* initialized" or "content client not initialized": no ValidToken call, no
\* refresh request, no change of the credentials, no attempt and no
\* dispatch; and the operation returns that error and no value.
C27_UninitialisedFailsFast ==
  [][\A c \in Callers :
       /\ ( /\ pc[c] = "idle" /\ pc'[c] # "idle"
            /\ api'.name \in ViaMetadata \cup ViaContent
            /\ ContentClient = NilClient /\ MetadataClient = NilClient )
          => /\ pc'[c] = "done" /\ outcome'[c] = "err"
             /\ err'[c] = IF api'.name \in ViaMetadata
                            THEN NotInitialized ELSE ContentNotInitialized
             /\ stats'[c] = NoStats
             /\ token'[c] = token[c] /\ obs'[c] = obs[c]
             /\ refreshSent' = refreshSent
             /\ authVars' = authVars
       /\ ( /\ pc[c] = "done"
            /\ op[c] \in {"MetadataRequest", "ContentRequest"} )
          => /\ pc'[c] \in {"done", "idle"}
             /\ refreshSent' = refreshSent /\ authVars' = authVars
             /\ stats'[c] = NoStats
             /\ (pc'[c] = "done" /\ api' # api)
                => (api'.result = "err" /\ api'.err = err[c] /\ api'.out.nil)
    ]_vars

\* C27 witness: OverwriteNode on a client without endpoints has returned
\* "content client not initialized"; no refresh request was ever sent and
\* nothing was dispatched.
C27_Witness ==
  /\ api.name = "OverwriteNode" /\ api.result = "err"
  /\ api.err = ContentNotInitialized
  /\ ContentClient = NilClient /\ MetadataClient = NilClient
  /\ refreshSent = 0 /\ stats[Main].dispatched = 0

\* C28: an InitEndpoint call whose content URL or metadata URL does not parse
\* returns an error and leaves ContentClient and MetadataClient as they were
\* before the call; a call whose URLs both parse returns nil and sets both
\* clients, each to its URL; so at no time is one client set and the other
\* not.
C28_InitEndpointAllOrNothing ==
  [][/\ (ContentClient' = NilClient) <=> (MetadataClient' = NilClient)
     /\ (pc[Main] = "idle" /\ pc'[Main] # "idle" /\ api'.name = "InitEndpoint")
        => LET content == URLParse(api'.args[1])
               metadata == URLParse(api'.args[2])
           IN IF content.ok /\ metadata.ok
                THEN /\ api'.result = "ok" /\ api'.err = NilError
                     /\ ContentClient' = content
                     /\ MetadataClient' = metadata
                ELSE /\ api'.result = "err" /\ api'.err # NilError
                     /\ outcome'[Main] = "err"
                     /\ ContentClient' = ContentClient
                     /\ MetadataClient' = MetadataClient
    ]_vars

\* C28 witness: on a client without endpoints InitEndpoint was called with a
\* content URL that parses and a metadata URL that does not; it has returned
\* an error and both clients are still nil.
C28_Witness ==
  /\ api.name = "InitEndpoint" /\ api.result = "err"
  /\ URLParse(api.args[1]).ok /\ ~URLParse(api.args[2]).ok
  /\ ContentClient = NilClient /\ MetadataClient = NilClient

\* C28, the same call on a client that had its endpoints: they are kept.
C28_WitnessKept ==
  /\ api.name = "InitEndpoint" /\ api.result = "err"
  /\ URLParse(api.args[1]).ok /\ ~URLParse(api.args[2]).ok
  /\ ContentClient = URLParse(ContentURLA)
  /\ MetadataClient = URLParse(MetadataURLA)

\* C29 (as claimed): ValidToken goes on to refresh exactly when the clock is
\* past the expiry minus 300 seconds, and not when it is exactly 300 seconds
\* before the expiry; and after a successful refresh whose expires_in is at
\* most 300 seconds, the next ValidToken test finds that a refresh is needed.
C29_RefreshAgainAtMostMargin ==
  [][\A c \in Callers :
       (pc[c] = "VT_check" /\ pc'[c] # "VT_check")
       => /\ (pc'[c] = "URT_lock") <=> (now > ExpiresAt - 300)
          /\ now = ExpiresAt - 300 => pc'[c] = "VT_read"
          /\ granted.ExpiresIn \in 0..300 => pc'[c] = "URT_lock"
    ]_vars

\* C29 (amended): ValidToken goes on to refresh exactly when the clock, in
\* whole seconds, is past the expiry minus 300 seconds; when it is exactly
\* 300 seconds before the expiry ValidToken returns the stored token and
\* sends no refresh request; after a successful refresh whose expires_in is
\* less than 300 seconds the next ValidToken test finds that a refresh is
\* needed, and after one whose expires_in is exactly 300 seconds it does so
\* only when the clock has left the second in which the expiry was set.
C29_StrictMarginInSeconds ==
  [][\A c \in Callers :
       /\ (pc[c] = "VT_check" /\ pc'[c] # "VT_check")
          => /\ (pc'[c] = "URT_lock") <=> (now > ExpiresAt - 300)
             /\ (pc'[c] = "VT_read") <=> (now <= ExpiresAt - 300)
             /\ granted.ExpiresIn \in 0..299 => pc'[c] = "URT_lock"
             /\ granted.ExpiresIn = 300
                => ((pc'[c] = "URT_lock") <=> (now > granted.at))
       /\ ( /\ pc[c] = "VT_read" /\ pc'[c] # "VT_read"
            /\ op[c] = "ValidToken" /\ obs[c].sent = 0 )
          => /\ pc'[c] = "done" /\ outcome'[c] = "ok"
             /\ token'[c] = AccessToken /\ AccessToken' = AccessToken
             /\ refreshSent = obs[c].base /\ refreshSent' = refreshSent
    ]_vars

\* C29 witness: a ValidToken call made exactly 300 seconds before the expiry
\* that a refresh with expires_in = 300 had set in the same second has
\* returned the stored token without a refresh request.
C29_Witness ==
  \E c \in Callers :
    /\ op[c] = "ValidToken" /\ pc[c] = "done" /\ outcome[c] = "ok"
    /\ granted.ExpiresIn = 300 /\ granted.at = now
    /\ now = ExpiresAt - 300
    /\ obs[c].sent = 0 /\ ~obs[c].need /\ token[c] = AccessToken

\* C29, the other cases: after a refresh with expires_in = 299, and a second
\* after one with expires_in = 300, the next call is refreshing again.
C29_WitnessAgain ==
  \E c \in Callers :
    /\ op[c] = "ValidToken" /\ pc[c] = "URT_wait" /\ obs[c].need
    /\ \/ granted.ExpiresIn = 299
       \/ granted.ExpiresIn = 300 /\ now = granted.at + 1

\* C30 (as claimed): HandleError is total on unexpected-status failures:
\* whatever the status, the content type and the body of the failure, the
\* call comes to its return statement, never to a panic, and what it returns
\* is a CloudDriveError, never nil.
C30_HandleErrorTotal ==
  (handled.st # "none" /\ handled.arg.type = "InvalidStatusError")
  => /\ handled.st # "panicked"
     /\ handled.st = "returned"
        => (handled.res # NilError /\ handled.res.type = "CloudDriveError")

(************************** download by temp link **************************)
\* What GET /nodes/{id}?tempLink=true answers with status 200, as the HTTP
\* client decodes it into node: the node of that id with one of the
\* temporary links the service hands out.
TempLinks == {"https://content-temp-a/link", "https://content-temp-b/link"}

LookupAnswers(nodeId) ==
  {[nil |-> FALSE, Id |-> nodeId, TempLink |-> l] : l \in TempLinks}

\* The spans the caller downloads by temp link with: none, or [2, 3].
TempLinkSpans == {NilSpan, [nil |-> FALSE, Start |-> 2, End |-> 3]}

\* LookupNodeById's request: GET /nodes/{nodeId} with tempLink=true.
LookupRequest(nodeId) ==
  [Method |-> "GET", Path |-> <<"/nodes/", nodeId>>,
   Params |-> <<"tempLink", "true">>, FullURL |-> "", Range |-> <<>>]

\* DownloadNodeByTempLink's second request: GET node.TempLink, with the
\* Range header of the span when one is given.
TempLinkRequest(node, span) ==
  [Method |-> "GET", Path |-> <<>>, Params |-> <<>>,
   FullURL |-> node.TempLink, Range |-> RangeHeader(span)]

\* d.DownloadNodeByTempLink(ctx, nodeId, span): it starts with
\* d.LookupNodeById(ctx, nodeId), which hands its request to
\* d.MetadataRequest.
CallDownloadNodeByTempLink(c, nodeId, span) ==
  /\ pc[c] = "idle"
  /\ api' = [NoApi EXCEPT !.name = "DownloadNodeByTempLink",
                          !.args = <<nodeId, span>>,
                          !.req = [via |-> "MetadataClient",
                                   request |-> LookupRequest(nodeId)]]
  /\ MetadataRequest(c)
  /\ UNCHANGED <<ContentClient, MetadataClient, ctx, handled, svcVars, granted>>

\* After d.LookupNodeById returned: if err != nil { return nil, 0, err };
\* otherwise the request to node.TempLink is built and handed to
\* d.ContentRequest.
DownloadNodeByTempLink_Lookup(c) ==
  /\ api.name = "DownloadNodeByTempLink" /\ api.result = "none"
  /\ api.req.via = "MetadataClient"
  /\ pc[c] = "done"
  /\ LET seen == [dispatched |-> stats[c].dispatched, last |-> stats[c].last]
     IN IF outcome[c] = "err"
          THEN /\ api' = [api EXCEPT !.result = "err", !.err = err[c],
                                     !.looked = seen]
               /\ UNCHANGED <<now, authVars, MaxRetries, pc, op, reqVars, token,
                              respVal, err, outcome, refreshSent, obs, stats>>
          ELSE \E node \in LookupAnswers(api.args[1]) :
                 /\ api' = [api EXCEPT
                              !.node = node, !.looked = seen,
                              !.req = [via |-> "ContentClient",
                                       request |-> TempLinkRequest(node, api.args[2])]]
                 /\ ContentRequest(c, TRUE)
  /\ UNCHANGED <<ContentClient, MetadataClient, ctx, handled, svcVars, granted>>

\* After d.ContentRequest returned: if err != nil { return nil, 0, err };
\* return res.Body, res.ContentLength, nil.  The link serves "12345".
DownloadNodeByTempLink_Return(c) ==
  /\ api.name = "DownloadNodeByTempLink" /\ api.result = "none"
  /\ api.req.via = "ContentClient"
  /\ pc[c] = "done"
  /\ api' = IF outcome[c] = "err"
              THEN [api EXCEPT !.result = "err", !.err = err[c]]
              ELSE LET res == ServeContent(Bytes(MaxPayload, 0),
                                           api.req.request.Range)
                   IN [api EXCEPT !.result = "ok",
                                  !.out = [NilOut EXCEPT
                                             !.nil = FALSE,
                                             !.body = res.Body,
                                             !.size = res.ContentLength]]
  /\ UNCHANGED <<now, authVars, MaxRetries, pc, op, reqVars, token, respVal,
                 err, outcome, refreshSent, obs, stats, ContentClient,
                 MetadataClient, ctx, handled, svcVars, granted>>

\* One goroutine that downloads nodes by temp link from an initialised or
\* not yet initialised client, with the default MaxRetries or one it
\* assigned, within the second in which the client was constructed; the
\* stored token may be expired, within the margin or fresh.
InitTempLink == Init /\ OnTokenRefresh = "nil"

NextTempLink ==
  \/ CallInitEndpoint(Main, ContentURLA, MetadataURLA)
  \/ \E n \in ApiMaxRetries : SetMaxRetries(Main, n)
  \/ \E nodeId \in 1..MaxNodes, span \in TempLinkSpans :
       CallDownloadNodeByTempLink(Main, nodeId, span)
  \/ DownloadNodeByTempLink_Lookup(Main)
  \/ DownloadNodeByTempLink_Return(Main)
  \/ RequestStep(Main)
  \/ AuthStep(Main)

SpecTempLink == InitTempLink /\ [][NextTempLink]_vars

\* C31 (as claimed): DownloadNodeByTempLink hands GET /nodes/{id} with
\* tempLink=true to the metadata client first; the request to the temp link
\* exists only after that lookup was dispatched and answered with a node,
\* and goes to the link of that node; a lookup that did not end with a node
\* ends with an error, which the operation returns as it is, without a node
\* and without a request to a temp link.
C31_LookupBeforeTempLink ==
  api.name = "DownloadNodeByTempLink"
  => LET lookup == api.req.via = "MetadataClient"
     IN /\ lookup => /\ api.req.request = LookupRequest(api.args[1])
                     /\ api.node.nil
        /\ ~lookup => /\ api.looked.dispatched >= 1
                      /\ api.looked.last = "ok"
                      /\ api.node \in LookupAnswers(api.args[1])
                      /\ api.req.request.FullURL = api.node.TempLink
        /\ (lookup /\ pc[Main] \in {"done", "panicked"} /\ outcome[Main] # "ok")
           => /\ pc[Main] = "done" /\ outcome[Main] = "err"
              /\ api.result # "none"
                 => (api.result = "err" /\ api.err = err[Main])

=============================================================================
